---------------------------- MODULE Spec2Model ----------------------------
(***************************************************************************)
(* Model of the sermon text-to-speech service: the Flask request handlers  *)
(* of app.py (submit, manual purge) and the background worker of           *)
(* sermon_worker.py (process_pending_jobs, purge_old_jobs,                 *)
(* background_worker_loop), sharing one SQLite table `sermons` and one     *)
(* audio directory.                                                        *)
(*                                                                         *)
(* Time.  The code stores utcnow() stamps and only ever compares them with *)
(* utcnow() minus a fixed duration (finished_at <= now - 24h,              *)
(* now - last_purge_time >= 5min).  The "%Y-%m-%d %H:%M:%S" strings it      *)
(* compares are fixed-width and zero-padded, so their string order is the  *)
(* order of the instants.  The model therefore keeps every stamp as the    *)
(* number of ticks elapsed since it was taken (0 when taken, +1 per Tick), *)
(* saturating at the duration it is compared with.  Durations are scaled   *)
(* to ticks, keeping their order: purge interval < retention window.       *)
(***************************************************************************)
EXTENDS Integers, Sequences, FiniteSets, TLC

\* ------------------------------------------------------------- bounds
\* Largest number of rows ever inserted (cap on the AUTOINCREMENT counter).
MaxJobs == 2

\* Longest transcription, in characters.
MaxLen == 7

\* max_chars of synthesize_text (1000), scaled to the texts above.
max_chars == 4

\* timedelta(hours=24) of purge_old_jobs, in ticks.
Retention == 2
\* timedelta(minutes=5) of background_worker_loop, in ticks.
PurgeInterval == 1

\* Caller-supplied sermon_guid values; NoGuid is a request without one.
Guids == {"g1", "g2"}
NoGuid == "none"
\* Concurrent request-handling contexts.
Reqs == {"r1", "r2"}

\* SQL NULL, and a non-null column value.
NULL == <<>>
Some(v) == <<v>>

\* Outcomes of one synthesize_text call: success, accelerator out of memory,
\* any other exception.
SynthResults == {"ok", "oom", "err"}

VARIABLES
    sermons,        \* the rows of table sermons
    seq,            \* AUTOINCREMENT: largest id ever handed out
    files,          \* guids g whose AUDIO_DIR/<g>.mp3 exists on disk
    req,            \* per request context: pc, sermon_guid, HTTP response
    wpc,            \* position of the worker loop
    jobs,           \* process_pending_jobs: the fetched pending snapshot (ids)
    idx,            \* process_pending_jobs: position of the for loop in jobs
    instance,       \* TTSModelSingleton._instance
    sincePurge,     \* ticks elapsed since last_purge_time
    calls,          \* synthesize_text calls made in the current worker tick
    text,           \* synthesize_text: the transcription being synthesized
    segments,       \* synthesize_text: the chunks the text was packed into
    parts,          \* indices i whose <output>.part<i>.mp3 exists on disk
    spc,            \* position inside the loop body / synthesize_text
    pos,            \* synthesize_text: chunks synthesized so far (len(temp_files))
    dirty           \* the engine ran since the last gc.collect / empty_cache

\* The state of one synthesize_text call, followed statement by statement.
svars == <<text, segments, parts, spc, pos, dirty>>

vars == <<sermons, seq, files, req, wpc, jobs, idx, instance, sincePurge, calls,
          text, segments, parts, spc, pos, dirty>>

\* ------------------------------------------------------------- helpers
Min(S) == CHOOSE x \in S : \A y \in S : x <= y

RECURSIVE Ascending(_)
\* fetchall() of a SELECT without ORDER BY on an INTEGER PRIMARY KEY table:
\* rows come in rowid order.
Ascending(S) == IF S = {} THEN <<>>
                ELSE <<Min(S)>> \o Ascending(S \ {Min(S)})

Row(i) == CHOOSE r \in sermons : r.id = i
GuidExists(g) == \E r \in sermons : r.sermon_guid = g

\* CREATE TABLE sermons: defaults of a freshly inserted row.
NewRow(i, g) ==
    [id |-> i, sermon_guid |-> g, status |-> "pending",
     audio_file |-> NULL, created_at |-> Some(0), finished_at |-> NULL]

Init ==
    /\ sermons = {}
    /\ seq = 0
    /\ files = {}
    /\ req = [r \in Reqs |-> [pc |-> "idle", guid |-> NoGuid, resp |-> 0]]
    /\ wpc = "process"
    /\ jobs = <<>>
    /\ idx = 1
    /\ instance = "None"
    /\ sincePurge = PurgeInterval
    /\ calls = <<>>
    /\ text = <<>>
    /\ segments = <<>>
    /\ parts = {}
    /\ spc = "idle"
    /\ pos = 0
    /\ dirty = FALSE

\* ------------------------------------------------------------- time
Older(t) == IF t = NULL THEN NULL
            ELSE Some(IF t[1] < Retention THEN t[1] + 1 ELSE Retention)

\* The wall clock advances by one tick: every stored stamp gets one tick older.
Tick ==
    /\ sermons' = {[r EXCEPT !.created_at = Older(r.created_at),
                              !.finished_at = Older(r.finished_at)] : r \in sermons}
    /\ sincePurge' = IF sincePurge < PurgeInterval THEN sincePurge + 1 ELSE PurgeInterval
    /\ UNCHANGED <<seq, files, req, wpc, jobs, idx, instance, calls>>
    /\ UNCHANGED svars

\* ------------------------------------------------------------- app.py: submit_sermon
\* Lines 107-121: read the payload, validate, pre-check for a duplicate guid.
SubmitCheck(r, g) ==
    /\ req[r].pc = "idle"
    /\ IF g = NoGuid
       THEN req' = [req EXCEPT ![r] = [pc |-> "idle", guid |-> g, resp |-> 400]]
       ELSE IF GuidExists(g)
       THEN req' = [req EXCEPT ![r] = [pc |-> "idle", guid |-> g, resp |-> 409]]
       ELSE /\ seq + Cardinality({q \in Reqs : req[q].pc = "insert"}) < MaxJobs
            /\ req' = [req EXCEPT ![r] = [pc |-> "insert", guid |-> g, resp |-> 0]]
    /\ UNCHANGED <<sermons, seq, files, wpc, jobs, idx, instance, sincePurge, calls>>
    /\ UNCHANGED svars

\* A table declared without UNIQUE on sermon_guid.
InsertAllowed_NoUnique(g) == TRUE

\* The UNIQUE constraint on sermon_guid: the INSERT raises IntegrityError
\* when a row with that guid exists.
InsertAllowed(g) == ~GuidExists(g)

\* An INSERT OR REPLACE: the row holding the guid is deleted and a fresh
\* pending row takes its place.
SubmitInsert_Replace(r) ==
    /\ req[r].pc = "insert"
    /\ seq' = seq + 1
    /\ sermons' = {x \in sermons : x.sermon_guid # req[r].guid}
                      \cup {NewRow(seq + 1, req[r].guid)}
    /\ req' = [req EXCEPT ![r].pc = "idle", ![r].resp = 201]
    /\ UNCHANGED <<files, wpc, jobs, idx, instance, sincePurge, calls>>
    /\ UNCHANGED svars

\* Lines 123-132: INSERT and commit; any exception becomes a 500.
SubmitInsert(r) ==
    /\ req[r].pc = "insert"
    /\ IF InsertAllowed(req[r].guid)
       THEN /\ seq' = seq + 1
            /\ sermons' = sermons \cup {NewRow(seq + 1, req[r].guid)}
            /\ req' = [req EXCEPT ![r].pc = "idle", ![r].resp = 201]
       ELSE /\ req' = [req EXCEPT ![r].pc = "idle", ![r].resp = 500]
            /\ UNCHANGED <<sermons, seq>>
    /\ UNCHANGED <<files, wpc, jobs, idx, instance, sincePurge, calls>>
    /\ UNCHANGED svars

\* ------------------------------------------------------------- sermon_worker.py
\* A worker that also picks up failed jobs again.
PendingIds_RetryErrors == {r.id : r \in {x \in sermons : x.status # "complete"}}

\* Line 129: SELECT ... WHERE status = 'pending'.
PendingIds == {r.id : r \in {x \in sermons : x.status = "pending"}}

\* Lines 126-130: open the connection and fetch the pending snapshot.
ProcessSelect ==
    /\ wpc = "process"
    /\ jobs' = Ascending(PendingIds)
    /\ idx' = 1
    /\ calls' = <<>>
    /\ wpc' = "job"
    /\ UNCHANGED <<sermons, seq, files, req, instance, sincePurge>>
    /\ UNCHANGED svars

\* A failure branch whose UPDATE never reaches the table.
MarkError_Lost(i) == sermons

\* Line 142: UPDATE sermons SET status = 'error' WHERE id = ?.
MarkError(i) ==
    {IF r.id = i THEN [r EXCEPT !.status = "error"] ELSE r : r \in sermons}

\* An UPDATE that records completion without the artifact path.
MarkComplete_NoAudio(i, path) ==
    {IF r.id = i
     THEN [r EXCEPT !.status = "complete", !.finished_at = Some(0)]
     ELSE r : r \in sermons}

\* Lines 147-151: UPDATE sermons SET status = 'complete', finished_at = ?,
\* audio_file = ? WHERE id = ?   (finished_at = utcnow(): zero ticks old).
MarkComplete(i, path) ==
    {IF r.id = i
     THEN [r EXCEPT !.status = "complete", !.finished_at = Some(0),
                    !.audio_file = Some(path)]
     ELSE r : r \in sermons}

\* A get_instance that hands out a non-accelerated model.
GetInstance_Cpu == "cpu"

\* Lines 20-23: TTSModelSingleton.get_instance builds the GPU model once.
GetInstance == IF instance = "None" THEN "gpu" ELSE instance

\* A failure that leaves the for loop instead of continuing it.
AfterJob_BreakOnFailure(failed) == IF failed THEN Len(jobs) + 1 ELSE idx + 1

\* Line 144 (continue) and the end of the loop body: the for loop moves on to
\* the next fetched job, whether the job failed or not.
AfterJob(failed) == idx + 1

\* Lines 131-155: one iteration of the for loop.  `load` is whether
\* TTS(NORMAL_MODEL_ID, gpu=True) can be constructed when no instance is
\* cached, `res` the outcome of synthesize_text.  Both sit inside the try of
\* line 135, so either failure takes the except branch of lines 140-144.
ProcessJob(load, res) ==
    /\ wpc = "job"
    /\ idx <= Len(jobs)
    /\ load = "fail" => instance = "None"
    /\ LET i == jobs[idx]
           g == Row(i).sermon_guid
       IN IF load = "fail"
          THEN /\ sermons' = MarkError(i)
               /\ UNCHANGED <<instance, files, calls>>
          ELSE /\ instance' = GetInstance
               /\ calls' = Append(calls, [job |-> i, device |-> GetInstance, result |-> res])
               /\ IF res = "ok"
                  THEN /\ files' = files \cup {g}
                       /\ sermons' = MarkComplete(i, g)
                  ELSE /\ sermons' = MarkError(i)
                       /\ UNCHANGED files
    /\ idx' = AfterJob(load = "fail" \/ res # "ok")
    /\ UNCHANGED <<seq, req, wpc, jobs, sincePurge>>
    /\ UNCHANGED svars

\* Line 156: the for loop is exhausted, conn.close(), process_pending_jobs returns.
ProcessDone ==
    /\ wpc = "job"
    /\ idx > Len(jobs)
    /\ wpc' = "purge_check"
    /\ UNCHANGED <<sermons, seq, files, req, jobs, idx, instance, sincePurge, calls>>
    /\ UNCHANGED svars

\* ------------------------------------------------------------- purge_old_jobs
\* A selection that forgets the age test.
Expired_AnyAge(r) == r.status \in {"complete", "error"}

\* Both copies, line 105 (worker) and line 61 (app): status IN ('complete',
\* 'error') AND finished_at <= now - 24h.  A NULL finished_at compares as
\* NULL, which WHERE treats as false.
Expired(r) ==
    /\ r.status \in {"complete", "error"}
    /\ r.finished_at # NULL
    /\ r.finished_at[1] >= Retention

Selected == {r \in sermons : Expired(r)}

\* job["audio_file"] and os.path.exists(job["audio_file"])
HasFile(r) == r.audio_file # NULL /\ r.audio_file[1] \in files

\* sermon_worker.py lines 99-118.  `fail` is the id of the first selected job
\* whose os.remove raises (0: none does).  os.remove is not guarded: the
\* exception leaves the for loop, conn.commit() is skipped and the DELETEs
\* made so far are rolled back when the connection is dropped; the files
\* already removed stay removed.
WorkerPurgeRows(fail) == IF fail = 0 THEN sermons \ Selected ELSE sermons

WorkerPurgeFiles(fail) ==
    IF fail = 0
    THEN files \ {r.audio_file[1] : r \in {x \in Selected : HasFile(x)}}
    ELSE files \ {r.audio_file[1] : r \in {x \in Selected : HasFile(x) /\ x.id < fail}}

\* background_worker_loop lines 171-174, purge due.
WorkerPurge(fail) ==
    /\ wpc = "purge_check"
    /\ sincePurge >= PurgeInterval
    /\ fail # 0 => \E r \in Selected : r.id = fail /\ HasFile(r)
    /\ sermons' = WorkerPurgeRows(fail)
    /\ files' = WorkerPurgeFiles(fail)
    /\ sincePurge' = 0
    /\ wpc' = "sleep"
    /\ UNCHANGED <<seq, req, jobs, idx, instance, calls>>
    /\ UNCHANGED svars

\* background_worker_loop line 171, purge not due.
SkipPurge ==
    /\ wpc = "purge_check"
    /\ sincePurge < PurgeInterval
    /\ wpc' = "sleep"
    /\ UNCHANGED <<sermons, seq, files, req, jobs, idx, instance, sincePurge, calls>>
    /\ UNCHANGED svars

\* background_worker_loop line 176: time.sleep(5), then the next iteration.
Sleep ==
    /\ wpc = "sleep"
    /\ wpc' = "process"
    /\ UNCHANGED <<sermons, seq, files, req, jobs, idx, instance, sincePurge, calls>>
    /\ UNCHANGED svars

\* app.py lines 50-91 behind POST /purge (lines 232-240), in a request
\* context.  `failed` are the selected jobs whose os.remove raises; each is
\* caught (lines 68-74) and the row is deleted all the same.
AppPurgeRows == sermons \ Selected

AppPurgeFiles(failed) ==
    files \ {r.audio_file[1] : r \in {x \in Selected : HasFile(x) /\ x.id \notin failed}}

ManualPurge(failed) ==
    /\ failed \subseteq {r.id : r \in {x \in Selected : HasFile(x)}}
    /\ sermons' = AppPurgeRows
    /\ files' = AppPurgeFiles(failed)
    /\ UNCHANGED <<seq, req, wpc, jobs, idx, instance, sincePurge, calls>>
    /\ UNCHANGED svars

Ids == 1..MaxJobs

Next ==
    \/ Tick
    \/ \E r \in Reqs, g \in Guids \cup {NoGuid} : SubmitCheck(r, g)
    \/ \E r \in Reqs : SubmitInsert(r)
    \/ ProcessSelect
    \/ \E load \in {"ok", "fail"}, res \in SynthResults : ProcessJob(load, res)
    \/ ProcessDone
    \/ \E fail \in {0} \cup Ids : WorkerPurge(fail)
    \/ SkipPurge
    \/ Sleep
    \/ \E failed \in SUBSET Ids : ManualPurge(failed)

Spec == Init /\ [][Next]_vars

\* The steps taken in a request-handling context: the routes of app.py that
\* write (POST /sermon, POST /purge).
RequestNext ==
    \/ \E r \in Reqs, g \in Guids \cup {NoGuid} : SubmitCheck(r, g)
    \/ \E r \in Reqs : SubmitInsert(r)
    \/ \E failed \in SUBSET Ids : ManualPurge(failed)

\* ------------------------------------------------------------- fairness
\* The steps of the single worker thread.
WorkerNext ==
    \/ ProcessSelect
    \/ \E load \in {"ok", "fail"}, res \in SynthResults : ProcessJob(load, res)
    \/ ProcessDone
    \/ \E fail \in {0} \cup Ids : WorkerPurge(fail)
    \/ SkipPurge
    \/ Sleep

\* The worker thread keeps being scheduled, the clock keeps advancing, and a
\* purge in which every os.remove succeeds keeps happening.
FairSpec ==
    /\ Spec
    /\ WF_vars(WorkerNext)
    /\ WF_vars(Tick)
    /\ SF_vars(WorkerPurge(0))

\* The service with a single request context: every step of Next except the
\* interleavings of two concurrent create requests.
OneClientNext ==
    \/ Tick
    \/ \E g \in Guids \cup {NoGuid} : SubmitCheck("r1", g)
    \/ SubmitInsert("r1")
    \/ ProcessSelect
    \/ \E load \in {"ok", "fail"}, res \in SynthResults : ProcessJob(load, res)
    \/ ProcessDone
    \/ \E fail \in {0} \cup Ids : WorkerPurge(fail)
    \/ SkipPurge
    \/ Sleep
    \/ \E failed \in SUBSET Ids : ManualPurge(failed)

\* ------------------------------------------------------------- store failures
\* An exception that no handler catches ends the worker thread.
Caught_Escapes(position) == "dead"

\* The except clauses of lines 157-158 (process_pending_jobs) and 117-118
\* (purge_old_jobs): the exception is logged and the function returns, so
\* background_worker_loop goes on at `position`.
Caught(position) == position

\* Lines 126-130 raise (sqlite3.connect or the SELECT): nothing is fetched.
ProcessSelectFail ==
    /\ wpc = "process"
    /\ jobs' = <<>>
    /\ idx' = 1
    /\ calls' = <<>>
    /\ wpc' = Caught("purge_check")
    /\ UNCHANGED <<sermons, seq, files, req, instance, sincePurge>>
    /\ UNCHANGED svars

\* Lines 131-152 with the store failing while the outcome is recorded: the
\* job was synthesized (or failed to be), then the UPDATE or the commit of
\* lines 142-143 or 148-152 raises.  The row keeps its status, and the
\* exception, raised outside the inner try (or inside its except clause),
\* leaves the for loop for the handler of line 157.
ProcessJobStoreFail(load, res) ==
    /\ wpc = "job"
    /\ idx <= Len(jobs)
    /\ load = "fail" => instance = "None"
    /\ IF load = "fail"
       THEN UNCHANGED <<instance, files, calls>>
       ELSE /\ instance' = GetInstance
            /\ calls' = Append(calls, [job |-> jobs[idx], device |-> GetInstance,
                                       result |-> res])
            /\ files' = IF res = "ok" THEN files \cup {Row(jobs[idx]).sermon_guid}
                                      ELSE files
    /\ wpc' = Caught("purge_check")
    /\ UNCHANGED <<sermons, seq, req, jobs, idx, sincePurge>>
    /\ UNCHANGED svars

\* Lines 100-108 raise in the scheduled purge (sqlite3.connect or the
\* SELECT): nothing is removed, and line 174 still resets last_purge_time.
WorkerPurgeStoreFail ==
    /\ wpc = "purge_check"
    /\ sincePurge >= PurgeInterval
    /\ sincePurge' = 0
    /\ wpc' = Caught("sleep")
    /\ UNCHANGED <<sermons, seq, files, req, jobs, idx, instance, calls>>
    /\ UNCHANGED svars

\* The worker's steps when the store may fail.
FaultWorkerNext ==
    \/ WorkerNext
    \/ ProcessSelectFail
    \/ \E load \in {"ok", "fail"}, res \in SynthResults : ProcessJobStoreFail(load, res)
    \/ WorkerPurgeStoreFail

FaultNext ==
    \/ OneClientNext
    \/ ProcessSelectFail
    \/ \E load \in {"ok", "fail"}, res \in SynthResults : ProcessJobStoreFail(load, res)
    \/ WorkerPurgeStoreFail

\* The service with a store that may fail under the worker.
\* background_worker_loop is `while True` on a thread of its own: the worker
\* keeps being scheduled.  Nothing is assumed of the clients or the clock.
StoreFaultSpec == Init /\ [][FaultNext]_vars /\ WF_vars(FaultWorkerNext)

\* The same service when the store is eventually available: the SELECT of
\* the pending jobs and the recording of an outcome, attempted again and
\* again, do not fail every time.
StoreRecoversSpec ==
    /\ StoreFaultSpec
    /\ SF_vars(ProcessSelect)
    /\ SF_vars(\E load \in {"ok", "fail"}, res \in SynthResults : ProcessJob(load, res))

\* ------------------------------------------------------------- synthesize_text
\* Transcriptions are sequences of characters: a letter, the sentence
\* terminator and white space.
Chars == {"a", ".", " "}
Texts == UNION {[1..n -> Chars] : n \in 1..MaxLen}

RECURSIVE SplitDot(_)
\* text.split('.'): the pieces between the periods, empty pieces included.
SplitDot(s) ==
    IF \A j \in 1..Len(s) : s[j] # "."
    THEN <<s>>
    ELSE LET p == Min({j \in 1..Len(s) : s[j] = "."})
         IN <<SubSeq(s, 1, p - 1)>> \o SplitDot(SubSeq(s, p + 1, Len(s)))

RECURSIVE LStrip(_)
LStrip(s) == IF s # <<>> /\ Head(s) = " " THEN LStrip(Tail(s)) ELSE s

RECURSIVE RStrip(_)
RStrip(s) == IF s # <<>> /\ s[Len(s)] = " " THEN RStrip(SubSeq(s, 1, Len(s) - 1)) ELSE s

\* str.strip()
Strip(s) == RStrip(LStrip(s))

RECURSIVE Pack(_, _, _)
\* Lines 68-79: the for loop over the pieces, `current` being current_segment
\* and `segs` the segments appended so far, and the final append.
Pack(pieces, current, segs) ==
    IF pieces = <<>>
    THEN IF current # <<>> THEN Append(segs, current) ELSE segs
    ELSE LET stripped == Strip(Head(pieces))
             sentence == Append(stripped, ".")
         IN IF stripped = <<>>
            THEN Pack(Tail(pieces), current, segs)
            ELSE IF Len(current) + Len(sentence) <= max_chars
            THEN Pack(Tail(pieces),
                      IF current # <<>> THEN Strip(current \o <<" ">> \o sentence)
                                        ELSE sentence,
                      segs)
            ELSE Pack(Tail(pieces), sentence, Append(segs, current))

\* Lines 65-79: the segments of a text longer than max_chars.
Segments(t) == Pack(SplitDot(t), <<>>, <<>>)

\* One job, freshly fetched by process_pending_jobs, with any transcription.
SynthInit ==
    /\ sermons = {NewRow(1, "g1")}
    /\ seq = 1
    /\ files = {}
    /\ req = [r \in Reqs |-> [pc |-> "idle", guid |-> NoGuid, resp |-> 0]]
    /\ wpc = "job"
    /\ jobs = <<1>>
    /\ idx = 1
    /\ instance = "None"
    /\ sincePurge = 0
    /\ calls = <<>>
    /\ text \in Texts
    /\ segments = <<>>
    /\ parts = {}
    /\ spc = "start"
    /\ pos = 0
    /\ dirty = FALSE

\* The synthesize_text call of line 138 returns or raises.
Called(res) == Append(calls, [job |-> jobs[idx], device |-> instance, result |-> res])

\* Lines 137-138 and 63-79: get the model, enter synthesize_text, split a
\* long text into segments.
SynStart ==
    /\ spc = "start"
    /\ instance' = GetInstance
    /\ IF Len(text) > max_chars
       THEN segments' = Segments(text) /\ spc' = "chunks"
       ELSE segments' = <<>> /\ spc' = "direct"
    /\ UNCHANGED <<sermons, seq, files, req, wpc, jobs, idx, sincePurge, calls,
                   text, parts, pos, dirty>>

\* Line 93: a short text goes to the output file in one engine call.
SynDirect(res) ==
    /\ spc = "direct"
    /\ dirty' = TRUE
    /\ calls' = Called(res)
    /\ IF res = "ok"
       THEN files' = files \cup {Row(jobs[idx]).sermon_guid} /\ spc' = "returned"
       ELSE UNCHANGED files /\ spc' = "raised"
    /\ UNCHANGED <<sermons, seq, req, wpc, jobs, idx, instance, sincePurge,
                   text, segments, parts, pos>>

\* Lines 82-87: segment number pos goes to <output>.part<pos>.mp3, then
\* gc.collect() and torch.cuda.empty_cache(); an engine failure leaves
\* synthesize_text at once.
SynChunk(res) ==
    /\ spc = "chunks"
    /\ pos < Len(segments)
    /\ IF res = "ok"
       THEN /\ parts' = parts \cup {pos}
            /\ pos' = pos + 1
            /\ dirty' = FALSE
            /\ UNCHANGED <<spc, calls>>
       ELSE /\ dirty' = TRUE
            /\ spc' = "raised"
            /\ calls' = Called(res)
            /\ UNCHANGED <<parts, pos>>
    /\ UNCHANGED <<sermons, seq, files, req, wpc, jobs, idx, instance, sincePurge,
                   text, segments>>

\* Lines 88 and 40-56: combine_audio_files.  With no segment at all,
\* `combined` is still None at line 56 and the export raises.
SynCombine(res) ==
    /\ spc = "chunks"
    /\ pos = Len(segments)
    /\ res = "ok" => Len(segments) > 0
    /\ IF res = "ok"
       THEN files' = files \cup {Row(jobs[idx]).sermon_guid} /\ spc' = "cleanup"
                /\ UNCHANGED calls
       ELSE UNCHANGED files /\ spc' = "raised" /\ calls' = Called(res)
    /\ UNCHANGED <<sermons, seq, req, wpc, jobs, idx, instance, sincePurge,
                   text, segments, parts, pos, dirty>>

\* A cleanup loop that removes nothing.
PartsLeft_KeepAll(fail) == parts

\* Lines 90-91: os.remove of every temporary file, in order; `fail` is the
\* first one whose removal raises (Len(segments): none does).
PartsLeft(fail) == {j \in parts : j >= fail}

SynRemoveParts(fail) ==
    /\ spc = "cleanup"
    /\ fail \in parts \cup {Len(segments)}
    /\ parts' = PartsLeft(fail)
    /\ IF fail = Len(segments)
       THEN spc' = "returned" /\ calls' = Called("ok")
       ELSE spc' = "raised" /\ calls' = Called("err")
    /\ UNCHANGED <<sermons, seq, files, req, wpc, jobs, idx, instance, sincePurge,
                   text, segments, pos, dirty>>

\* Lines 139 and 146-155: synthesize_text returned; the row becomes complete,
\* then gc.collect() and torch.cuda.empty_cache().
SynComplete ==
    /\ spc = "returned"
    /\ sermons' = MarkComplete(jobs[idx], Row(jobs[idx]).sermon_guid)
    /\ dirty' = FALSE
    /\ idx' = AfterJob(FALSE)
    /\ spc' = "done"
    /\ UNCHANGED <<seq, files, req, wpc, jobs, instance, sincePurge, calls,
                   text, segments, parts, pos>>

\* Lines 140-144: synthesize_text raised; the row becomes error and the loop
\* continues with the next job.
SynFailed ==
    /\ spc = "raised"
    /\ sermons' = MarkError(jobs[idx])
    /\ idx' = AfterJob(TRUE)
    /\ spc' = "done"
    /\ UNCHANGED <<seq, files, req, wpc, jobs, instance, sincePurge, calls,
                   text, segments, parts, pos, dirty>>

SynthNext ==
    \/ SynStart
    \/ \E res \in SynthResults : SynDirect(res)
    \/ \E res \in SynthResults : SynChunk(res)
    \/ \E res \in SynthResults : SynCombine(res)
    \/ \E fail \in 0..MaxLen : SynRemoveParts(fail)
    \/ SynComplete
    \/ SynFailed

\* The loop body of process_pending_jobs on one job, synthesize_text
\* followed statement by statement.
SynthSpec == SynthInit /\ [][SynthNext]_vars

\* ============================================================= claims

\* C1: in every reachable state, for every job, finished_at is non-null if
\* and only if the job's status is terminal (complete or error).
C1_FinishedIffTerminal ==
    \A r \in sermons : (r.finished_at # NULL) <=> (r.status \in {"complete", "error"})

\* C2: a job's status changes only pending -> complete or pending -> error;
\* a terminal job never changes status again.
C2_StatusChangesOnce ==
    [][\A r \in sermons : \A t \in sermons' :
          (t.id = r.id /\ t.status # r.status)
              => (r.status = "pending" /\ t.status \in {"complete", "error"})]_vars

\* C2 witness: a later worker tick is running its loop over a pending job
\* while a job that an earlier tick made terminal is still in the store.
C2_Witness ==
    /\ wpc = "job"
    /\ idx <= Len(jobs)
    /\ \E r \in sermons :
          /\ r.status \in {"complete", "error"}
          /\ \A k \in 1..Len(jobs) : jobs[k] # r.id

\* C3: in every reachable state, for every job, audio_file is non-null if
\* and only if status is complete.
C3_AudioIffComplete ==
    \A r \in sermons : (r.audio_file # NULL) <=> (r.status = "complete")

\* C3 witness: the store holds a complete job with its artifact path and an
\* error job without one.
C3_Witness ==
    /\ \E r \in sermons : r.status = "complete" /\ r.audio_file = Some(r.sermon_guid)
    /\ \E r \in sermons : r.status = "error" /\ r.audio_file = NULL

\* C4: in every reachable state there is at most one row per guid.
C4_GuidUnique ==
    \A r \in sermons : \A t \in sermons : r.sermon_guid = t.sermon_guid => r.id = t.id

\* C4 witness: a create request is past the duplicate pre-check, about to
\* INSERT, and a concurrent request has already inserted the same guid.
C4_Witness ==
    \E r \in Reqs : req[r].pc = "insert" /\ GuidExists(req[r].guid)

\* C5: a create request that finishes while a row with its guid exists ends
\* with 409, whether the row was there at the pre-check or inserted by a
\* concurrent request after it.
C5_DuplicateIsConflict ==
    [][\A r \in Reqs :
          (req'[r] # req[r] /\ req'[r].pc = "idle"
           /\ req'[r].guid \in Guids /\ GuidExists(req'[r].guid))
              => req'[r].resp = 409]_vars

\* C6: when the first synthesis attempt for a job signals resource
\* exhaustion, the worker releases the accelerated handle and makes exactly
\* one further attempt for the same job on a fallback (non-accelerated)
\* handle; the job ends complete iff that fallback attempt succeeds.
C6_ExhaustionFallsBack ==
    \A k \in 1..Len(calls) :
        (calls[k].result = "oom" /\ calls[k].device = "gpu")
            => /\ k < Len(calls)
               /\ calls[k + 1].job = calls[k].job
               /\ calls[k + 1].device = "cpu"
               /\ \A r \in sermons : r.id = calls[k].job =>
                     (r.status = "complete" <=> calls[k + 1].result = "ok")

\* C7: every row that disappears from the store was, in the state the purge
\* selected it in, complete or error with finished_at at least the
\* retention window old; a pending row never disappears.
C7_PurgeOnlyExpiredTerminal ==
    [][\A r \in sermons :
          (\A t \in sermons' : t.id # r.id)
              => /\ r.status \in {"complete", "error"}
                 /\ r.finished_at # NULL
                 /\ r.finished_at[1] >= Retention]_vars

\* C7 witness: a worker purge has just deleted a job, and a pending job at
\* least as old as the retention window is still in the store.
C7_Witness ==
    /\ wpc = "sleep"
    /\ sincePurge = 0
    /\ Cardinality(sermons) < seq
    /\ \E r \in sermons : r.status = "pending" /\ r.created_at[1] >= Retention

\* C8: every job that reaches a terminal status is eventually deleted by the
\* retention purge (worker scheduled, clock advancing, deletions succeeding).
C8_TerminalEventuallyPurged ==
    \A i \in Ids :
        [](  (\E r \in sermons : r.id = i /\ r.status \in {"complete", "error"})
          => <>(\A r \in sermons : r.id # i))

\* C9: in a worker purge run where the os.remove of a selected job's artifact
\* fails (the file is still there afterwards), every selected row, that
\* job's included, is deleted by the run.
C9_WorkerPurgeSurvivesFileFailure ==
    [][(/\ wpc = "purge_check"
        /\ wpc' = "sleep"
        /\ sincePurge >= PurgeInterval
        /\ \E r \in sermons :
              /\ r.status \in {"complete", "error"}
              /\ r.finished_at # NULL /\ r.finished_at[1] >= Retention
              /\ r.audio_file # NULL /\ r.audio_file[1] \in files
              /\ r.audio_file[1] \in files')
          => \A r \in sermons :
                (/\ r.status \in {"complete", "error"}
                 /\ r.finished_at # NULL /\ r.finished_at[1] >= Retention)
                    => \A t \in sermons' : t.id # r.id]_vars

\* C10: when process_pending_jobs has left its loop, every job whose
\* synthesis failed in this tick is recorded as error, and every job that
\* follows a failed job in the snapshot has been attempted (is no longer
\* pending).
C10_FailureDoesNotEndTick ==
    wpc \in {"purge_check", "sleep"} =>
        /\ \A k \in 1..Len(calls) : \A r \in sermons :
              (r.id = calls[k].job /\ calls[k].result # "ok") => r.status = "error"
        /\ \A k \in 1..Len(jobs) : \A m \in (k + 1)..Len(jobs) :
              (\E r \in sermons : r.id = jobs[k] /\ r.status = "error")
                  => ~(\E t \in sermons : t.id = jobs[m] /\ t.status = "pending")

\* C10 witness: the tick is over, the first job of the snapshot failed in
\* synthesis and the second one was synthesized after it.
C10_Witness ==
    /\ wpc = "purge_check"
    /\ Len(calls) = 2
    /\ calls[1].job = jobs[1] /\ calls[1].result # "ok"
    /\ calls[2].job = jobs[2] /\ calls[2].result = "ok"
    /\ \E r \in sermons : r.id = jobs[1] /\ r.status = "error"
    /\ \E r \in sermons : r.id = jobs[2] /\ r.status = "complete"

\* C11: every job created as pending eventually reaches status complete or
\* error (worker scheduled, synthesis calls returning, store eventually
\* available).
C11_PendingEventuallyTerminal ==
    \A i \in Ids :
        [](  (\E r \in sermons : r.id = i /\ r.status = "pending")
          => <>(\E r \in sermons : r.id = i /\ r.status \in {"complete", "error"}))

\* C11 witness: a job that waited as pending for at least one clock tick has
\* been taken through the loop body of the current worker tick and is terminal.
C11_Witness ==
    /\ wpc = "job"
    /\ \E k \in 1..Len(jobs) : \E r \in sermons :
          /\ k < idx
          /\ r.id = jobs[k]
          /\ r.created_at[1] >= 1
          /\ r.status \in {"complete", "error"}

\* C14 (as stated): no step of a request-handling context changes status,
\* audio_file or finished_at of a job or removes a row from the store.
C14_RequestsNeverMutateOrDelete ==
    [][RequestNext =>
          \A r \in sermons : \E t \in sermons' :
              /\ t.id = r.id
              /\ t.status = r.status
              /\ t.audio_file = r.audio_file
              /\ t.finished_at = r.finished_at]_vars

\* C14 (amended): no step of a request-handling context changes status,
\* audio_file or finished_at of a job, and the only request-context step
\* that removes rows is the manual purge trigger (POST /purge).
C14_RequestsMutateNothingDeleteOnlyByPurge ==
    [][RequestNext =>
          /\ \A r \in sermons : \A t \in sermons' :
                t.id = r.id => /\ t.status = r.status
                               /\ t.audio_file = r.audio_file
                               /\ t.finished_at = r.finished_at
          /\ (\E r \in sermons : \A t \in sermons' : t.id # r.id)
                => \E failed \in SUBSET Ids : ManualPurge(failed)]_vars

\* C14 witness: an artifact is on disk whose row is gone.  The worker's purge
\* deletes a row only after removing its file, so this row was deleted by
\* the manual purge, in a request context, after its os.remove failed.
C14_Witness ==
    \E g \in files : ~GuidExists(g)

\* C17: a job whose synthesis attempt failed with a non-exhaustion error has
\* exactly one synthesis attempt in the tick, made on the accelerated
\* handle, the cached handle is still the accelerated one, and the job is
\* recorded as error.
C17_PlainFailureIsFinal ==
    \A k \in 1..Len(calls) :
        calls[k].result = "err"
            => /\ \A m \in 1..Len(calls) : calls[m].job = calls[k].job => m = k
               /\ calls[k].device = "gpu"
               /\ instance = "gpu"
               /\ \A r \in sermons : r.id = calls[k].job => r.status = "error"

\* C17 witness: the tick is past a job that failed with a non-exhaustion
\* error and has gone on to the next job of the snapshot.
C17_Witness ==
    /\ wpc = "job"
    /\ Len(calls) = 2
    /\ calls[1].result = "err"
    /\ calls[2].job # calls[1].job
    /\ \E r \in sermons : r.id = calls[1].job /\ r.status = "error"

\* The non-empty sentences of a text, in order, each with its terminator:
\* what "the text's sentences" means in C19.
SentencesOf(pieces) ==
    LET kept == SelectSeq(pieces, LAMBDA x : Strip(x) # <<>>)
    IN [j \in 1..Len(kept) |-> Append(Strip(kept[j]), ".")]

RECURSIVE Flatten(_)
Flatten(ss) == IF ss = <<>> THEN <<>> ELSE Head(ss) \o Flatten(Tail(ss))

C13_NoPartsAfterSuccess ==
    \A r \in sermons :
        (r.status = "complete" /\ Len(text) > max_chars)
            => /\ parts = {}
               /\ files = {r.sermon_guid}
               /\ r.audio_file = Some(r.sermon_guid)

\* C13 witness: a job whose text was split into three chunks is complete.
C13_Witness ==
    /\ spc = "done"
    /\ Len(segments) = 3
    /\ \E r \in sermons : r.status = "complete"

\* C16: when the loop body is through with a job, complete or error, a
\* memory-reclamation pass has run since the engine was last used.
C16_ReclaimedAfterEveryJob ==
    spc = "done" => ~dirty

\* C19: for every text longer than the chunk threshold, the chunks are the
\* text's non-empty sentences, in order, each in exactly one chunk, and
\* every chunk holds at least one sentence.
C19_ChunksPartitionSentences ==
    (spc \notin {"idle", "start"} /\ Len(text) > max_chars)
        => /\ Flatten([j \in 1..Len(segments) |-> SentencesOf(SplitDot(segments[j]))])
                  = SentencesOf(SplitDot(text))
           /\ \A j \in 1..Len(segments) : SentencesOf(SplitDot(segments[j])) # <<>>

\* C20: once a job is terminal, complete or error, no temporary per-chunk
\* artifact of it is left on disk.
C20_NoPartsAfterTerminal ==
    \A r \in sermons : r.status \in {"complete", "error"} => parts = {}

\* C15: when the store fails while the worker records a job's outcome (the
\* job was synthesized in this tick and its row is still pending), the jobs
\* that follow it in the snapshot are still processed in that tick.
C15_StoreFailureDoesNotEndTick ==
    wpc \in {"purge_check", "sleep"} =>
        \A m \in 1..Len(jobs) :
            (/\ \E c \in 1..Len(calls) : calls[c].job = jobs[m]
             /\ \E r \in sermons : r.id = jobs[m] /\ r.status = "pending")
                => \A n \in (m + 1)..Len(jobs) :
                      \/ \E c \in 1..Len(calls) : calls[c].job = jobs[n]
                      \/ \E r \in sermons : r.id = jobs[n] /\ r.status # "pending"

\* C18: the worker loop never ends: whatever fails in a tick, the loop
\* reaches its sleep and starts the next tick, again and again.
C18_LoopNeverEnds ==
    /\ []<>(wpc = "sleep")
    /\ []<>(wpc = "process")

\* C18 witness: the loop is at its sleep at the end of a tick in which the
\* store failed (a job was synthesized and its row is still pending).
C18_Witness ==
    /\ wpc = "sleep"
    /\ \E c \in 1..Len(calls) : \E r \in sermons :
          r.id = calls[c].job /\ r.status = "pending"
=============================================================================
